---- MODULE Spec2Model ----
(***************************************************************************)
(* Model of DocumentExtractor (src/document_extractor.py): the extraction  *)
(* entry point extract_from_document with its existence check and its      *)
(* single try/except fallback, the page-tree normalizer _format_output and *)
(* the flat-sequence normalizer _fallback_unstructured_extraction, whose    *)
(* page-grouping loop is modelled one iteration per step.                  *)
(*                                                                         *)
(* The two engines (deepdoctection's analyze, unstructured's partition_pdf)*)
(* are opaque collaborators: each call either raises or returns a value    *)
(* drawn from a bounded set of results.                                    *)
(***************************************************************************)
EXTENDS Integers, Sequences, FiniteSets, TLC

\* ------------------------------------------------------------------ bounds
\* Longest element list partition_pdf returns in the model.
MaxLen == 3
\* Largest page number an engine reports (page numbers are 1-based).
MaxPage == 2
\* Most page objects in an analyzed document of the primary engine.
MaxTreePages == 2

\* ------------------------------------------------------- program constants
\* element.metadata.page_number is None: page numbers are >= 1, so 0 is free.
None == 0
\* current_page_number = -1, the start value of the cursor.
Sentinel == -1

\* The paths callers pass, and the ones os.path.exists answers True for.
Paths == {"temp_doc.pdf", "missing.pdf"}
ExistingFiles == {"temp_doc.pdf"}

\* Variant: the existence check is left out.
os_path_exists_unchecked(path) == TRUE

os_path_exists(path) == path \in ExistingFiles

\* ------------------------------------------- the fallback engine's elements
\* Element classes of unstructured.documents.elements the engine emits.
\* Title, Table, NarrativeText, ListItem, Header and Footer derive from Text;
\* CheckBox derives from Element only.
Classes ==
    {"Title", "Table", "NarrativeText", "ListItem", "Header", "Footer", "CheckBox"}

TextSubclasses ==
    {"Title", "Table", "NarrativeText", "ListItem", "Header", "Footer"}

\* isinstance(element, base) for the three bases the code tests.
isinstance(cls, base) ==
    CASE base = "Title" -> cls = "Title"
      [] base = "Table" -> cls = "Table"
      [] base = "Text"  -> cls \in TextSubclasses \cup {"Text"}
      [] OTHER          -> FALSE

PageNumbers == 1..MaxPage

\* What one element carries besides its text: its class and the page number of
\* its metadata.  Classification reads only the class and grouping reads only
\* the page number, so the engine's elements are those that vary one of them:
\* every class on page 1, and narrative text on every page or on none.
ElementShapes ==
    {s \in [cls : Classes, page_number : PageNumbers \cup {None}] :
        s.cls = "NarrativeText" \/ s.page_number = 1}

\* The k-th element emitted: its text is its emission index, so that every
\* element of a list is distinguishable from the others.
Element(shape, k) ==
    [cls |-> shape.cls, page_number |-> shape.page_number,
     text |-> k, bbox |-> <<k, k>>]

\* Every list partition_pdf may return.
ElementLists ==
    UNION {{[k \in 1..n |-> Element(f[k], k)] : f \in [1..n -> ElementShapes]} :
            n \in 0..MaxLen}

\* ------------------------------------------ the primary engine's documents
TextBlocks == {<<>>, <<[text |-> "para", bounding_box |-> "bb_text"]>>}
TableBlocks == {<<>>, <<[csv |-> "a,b", bounding_box |-> "bb_table"]>>}
LayoutBlocks ==
    {<<>>,
     <<[category_name |-> "title", text |-> "Intro", bounding_box |-> "bb_lay"]>>,
     <<[category_name |-> "figure", text |-> "fig", bounding_box |-> "bb_lay"]>>}

TreePages ==
    [page_number : PageNumbers, text : TextBlocks, tables : TableBlocks,
     layouts : LayoutBlocks]

\* The engine walks the document front to back: one page object per page, in
\* ascending page order.
PageLists ==
    {s \in UNION {[1..n -> TreePages] : n \in 0..MaxTreePages} :
        \A i, j \in 1..Len(s) : i < j => s[i].page_number < s[j].page_number}

AnalyzedDoc(path, pages) == [path |-> path, pages |-> pages]

\* ------------------------------------------------------------------- state
VARIABLES
    pc,                   \* position of the call in extract_from_document
    file_path,            \* the argument of the current call
    analyze_calls,        \* dd_pipeline.analyze invocations of the call
    analyze_outcome,      \* "none" | "ok" | "raised"
    partition_calls,      \* partition_pdf invocations of the call
    partition_outcome,    \* "none" | "ok" | "raised"
    partition_arg,        \* the filename partition_pdf was given
    format_calls,         \* _format_output runs of the call
    analyzed_doc,         \* what analyze returned
    elements,             \* what partition_pdf returned
    idx,                  \* index of the next element of the for loop
    current_page_number,  \* the cursor
    page_data,            \* items of the page being accumulated
    fallback_data,        \* the dictionary the fallback builds
    result,               \* <<>> or <<the returned dictionary>>
    error                 \* "none" or the exception the call ended with

vars ==
    <<pc, file_path, analyze_calls, analyze_outcome, partition_calls,
      partition_outcome, partition_arg, format_calls, analyzed_doc, elements,
      idx, current_page_number, page_data, fallback_data, result, error>>

loopVars == <<elements, idx, current_page_number, page_data, fallback_data>>

callVars ==
    <<analyze_calls, analyze_outcome, partition_calls, partition_outcome,
      partition_arg, format_calls, analyzed_doc>>

\* ---------------------------------------------------------- _format_output
TextItem(text_block) ==
    [type |-> "text", text |-> text_block.text,
     bounding_box |-> text_block.bounding_box]

TableItem(table) ==
    [type |-> "table", table_data |-> table.csv,
     bounding_box |-> table.bounding_box]

LayoutItem(element) ==
    [type |-> element.category_name, text |-> element.text,
     bounding_box |-> element.bounding_box]

PageElements(page) ==
    [k \in 1..Len(page.text) |-> TextItem(page.text[k])]
    \o [k \in 1..Len(page.tables) |-> TableItem(page.tables[k])]
    \o [k \in 1..Len(page.layouts) |-> LayoutItem(page.layouts[k])]

PageEntry(page_number, data) == [page_number |-> page_number, data |-> data]

format_output(doc) ==
    [file_path |-> doc.path,
     page_count |-> Len(doc.pages),
     elements |-> [k \in 1..Len(doc.pages) |->
                     PageEntry(doc.pages[k].page_number,
                               PageElements(doc.pages[k]))]]

\* ---------------------------------------- _fallback_unstructured_extraction
\* The isinstance chain of lines 182-193.
ElementType(cls) ==
    IF isinstance(cls, "Title") THEN "title"
    ELSE IF isinstance(cls, "Table") THEN "table"
    ELSE IF isinstance(cls, "Text") THEN "text"
    ELSE "unknown"

ElementDict(element) ==
    IF ElementType(element.cls) = "table"
    THEN [type |-> "table", text |-> element.text,
          bounding_box |-> element.bbox, table_data |-> element.text]
    ELSE [type |-> ElementType(element.cls), text |-> element.text,
          bounding_box |-> element.bbox]

\* Variant: a page opens only when the page number grows.
PageTransitionOnGrowth(element, cursor) ==
    element.page_number # None /\ element.page_number > cursor

\* Variant: every page-numbered element opens a page.
PageTransitionOnEveryNumber(element, cursor) ==
    element.page_number # None

\* Variant: the test for an absent page number is left out.
PageTransitionNoneUnchecked(element, cursor) ==
    element.page_number # cursor

\* The condition of line 173.
PageTransition(element, cursor) ==
    element.page_number # None /\ element.page_number # cursor

\* Lines 174-178: close the open page, appending it if it holds any item.
FlushPage(pages, cursor, data) ==
    IF data # <<>> THEN Append(pages, PageEntry(cursor, data)) ELSE pages

\* Variant: the flush after the loop is left out.
NoFinalFlush(pages, cursor, data) == pages

\* Lines 197-201: the flush after the loop.
FinalFlushPages(pages, cursor, data) ==
    IF data # <<>> THEN Append(pages, PageEntry(cursor, data)) ELSE pages

\* Variant: page_data is emptied after the append instead of before it.
LoopBodyResetAfterAppend(st, element) ==
    LET turn == PageTransition(element, st.current_page_number)
    IN  [pages |-> IF turn
                   THEN FlushPage(st.pages, st.current_page_number, st.page_data)
                   ELSE st.pages,
         current_page_number |-> IF turn THEN element.page_number
                                 ELSE st.current_page_number,
         page_data |-> IF turn THEN <<>>
                       ELSE Append(st.page_data, ElementDict(element))]

\* One iteration of the for loop (lines 171-195) on the loop's three locals.
LoopBody(st, element) ==
    LET turn == PageTransition(element, st.current_page_number)
    IN  [pages |-> IF turn
                   THEN FlushPage(st.pages, st.current_page_number, st.page_data)
                   ELSE st.pages,
         current_page_number |-> IF turn THEN element.page_number
                                 ELSE st.current_page_number,
         page_data |-> Append(IF turn THEN <<>> ELSE st.page_data,
                              ElementDict(element))]

LoopStart == [pages |-> <<>>, current_page_number |-> Sentinel, page_data |-> <<>>]

RECURSIVE LoopRun(_, _)
LoopRun(els, n) ==
    IF n = 0 THEN LoopStart ELSE LoopBody(LoopRun(els, n - 1), els[n])

\* The whole function on the list partition_pdf returned.
fallback_unstructured_extraction(path, els) ==
    LET st == LoopRun(els, Len(els))
    IN  [file_path |-> path,
         elements |-> FinalFlushPages(st.pages, st.current_page_number,
                                      st.page_data)]

\* ------------------------------------------------------------------ actions
NoDoc == AnalyzedDoc("", <<>>)
NoData == [file_path |-> "", elements |-> <<>>]

Init ==
    /\ pc = "idle"
    /\ file_path = ""
    /\ analyze_calls = 0
    /\ analyze_outcome = "none"
    /\ partition_calls = 0
    /\ partition_outcome = "none"
    /\ partition_arg = ""
    /\ format_calls = 0
    /\ analyzed_doc = NoDoc
    /\ elements = <<>>
    /\ idx = 1
    /\ current_page_number = Sentinel
    /\ page_data = <<>>
    /\ fallback_data = NoData
    /\ result = <<>>
    /\ error = "none"

\* A caller (app.py line 41) calls extract_from_document(path) on the cached
\* extractor; every local of the previous call is gone.
Call(path) ==
    /\ pc \in {"idle", "returned", "raised"}
    /\ pc' = "exists_check"
    /\ file_path' = path
    /\ analyze_calls' = 0
    /\ analyze_outcome' = "none"
    /\ partition_calls' = 0
    /\ partition_outcome' = "none"
    /\ partition_arg' = ""
    /\ format_calls' = 0
    /\ analyzed_doc' = NoDoc
    /\ elements' = <<>>
    /\ idx' = 1
    /\ current_page_number' = Sentinel
    /\ page_data' = <<>>
    /\ fallback_data' = NoData
    /\ result' = <<>>
    /\ error' = "none"

\* Lines 97-98.
ExistsCheck ==
    /\ pc = "exists_check"
    /\ IF os_path_exists(file_path)
       THEN pc' = "analyze" /\ error' = error
       ELSE pc' = "raised" /\ error' = "FileNotFoundError"
    /\ UNCHANGED <<file_path, callVars, loopVars, result>>

\* Line 105, the engine returns.
AnalyzeOk ==
    /\ pc = "analyze"
    /\ analyze_calls' = analyze_calls + 1
    /\ analyze_outcome' = "ok"
    /\ \E pages \in PageLists : analyzed_doc' = AnalyzedDoc(file_path, pages)
    /\ pc' = "format"
    /\ UNCHANGED <<file_path, partition_calls, partition_outcome, partition_arg,
                   format_calls, loopVars, result, error>>

\* Variant: the handler lets the failure out instead of falling back.
AnalyzeRaiseNoFallback ==
    /\ pc = "analyze"
    /\ analyze_calls' = analyze_calls + 1
    /\ analyze_outcome' = "raised"
    /\ pc' = "raised"
    /\ error' = "AnalyzeError"
    /\ UNCHANGED <<file_path, partition_calls, partition_outcome, partition_arg,
                   format_calls, analyzed_doc, loopVars, result>>

\* Lines 105-109, the engine raises: the handler goes on to the fallback.
AnalyzeRaise ==
    /\ pc = "analyze"
    /\ analyze_calls' = analyze_calls + 1
    /\ analyze_outcome' = "raised"
    /\ pc' = "partition"
    /\ UNCHANGED <<file_path, partition_calls, partition_outcome, partition_arg,
                   format_calls, analyzed_doc, loopVars, result, error>>

\* Line 111.
FormatOutput ==
    /\ pc = "format"
    /\ format_calls' = format_calls + 1
    /\ result' = <<format_output(analyzed_doc)>>
    /\ pc' = "returned"
    /\ UNCHANGED <<file_path, analyze_calls, analyze_outcome, partition_calls,
                   partition_outcome, partition_arg, analyzed_doc, loopVars,
                   error>>

\* Lines 161-169, partition_pdf returns.
PartitionOk ==
    /\ pc = "partition"
    /\ partition_calls' = partition_calls + 1
    /\ partition_outcome' = "ok"
    /\ partition_arg' = file_path
    /\ \E els \in ElementLists : elements' = els
    /\ fallback_data' = [file_path |-> file_path, elements |-> <<>>]
    /\ current_page_number' = LoopStart.current_page_number
    /\ page_data' = LoopStart.page_data
    /\ idx' = 1
    /\ pc' = "loop"
    /\ UNCHANGED <<file_path, analyze_calls, analyze_outcome, format_calls,
                   analyzed_doc, result, error>>

\* Variant: a failed partition_pdf is tried again.
PartitionRaiseRetry ==
    /\ pc = "partition"
    /\ partition_calls' = partition_calls + 1
    /\ partition_outcome' = "raised"
    /\ partition_arg' = file_path
    /\ pc' = "partition"
    /\ UNCHANGED <<file_path, analyze_calls, analyze_outcome, format_calls,
                   analyzed_doc, loopVars, result, error>>

\* Line 161, partition_pdf raises inside the handler: nothing catches it.
PartitionRaise ==
    /\ pc = "partition"
    /\ partition_calls' = partition_calls + 1
    /\ partition_outcome' = "raised"
    /\ partition_arg' = file_path
    /\ pc' = "raised"
    /\ error' = "PartitionError"
    /\ UNCHANGED <<file_path, analyze_calls, analyze_outcome, format_calls,
                   analyzed_doc, loopVars, result>>

\* Lines 171-195, one element.
LoopStep ==
    /\ pc = "loop"
    /\ idx <= Len(elements)
    /\ LET st == LoopBody([pages |-> fallback_data.elements,
                           current_page_number |-> current_page_number,
                           page_data |-> page_data],
                          elements[idx])
       IN  /\ fallback_data' = [fallback_data EXCEPT !.elements = st.pages]
           /\ current_page_number' = st.current_page_number
           /\ page_data' = st.page_data
    /\ idx' = idx + 1
    /\ UNCHANGED <<pc, file_path, callVars, elements, result, error>>

\* Lines 197-203 and the return of line 109.
FinalFlush ==
    /\ pc = "loop"
    /\ idx > Len(elements)
    /\ fallback_data' =
         [fallback_data EXCEPT
            !.elements = FinalFlushPages(fallback_data.elements,
                                         current_page_number, page_data)]
    /\ result' = <<fallback_data'>>
    /\ pc' = "returned"
    /\ UNCHANGED <<file_path, callVars, elements, idx, current_page_number,
                   page_data, error>>

Next ==
    \/ \E path \in Paths : Call(path)
    \/ ExistsCheck
    \/ AnalyzeOk
    \/ AnalyzeRaise
    \/ FormatOutput
    \/ PartitionOk
    \/ PartitionRaise
    \/ LoopStep
    \/ FinalFlush

Spec == Init /\ [][Next]_vars

\* ------------------------------------------------------- claim vocabulary
\* The page entries of the returned dictionary.
Out == result[1].elements

ReturnedByFallback == pc = "returned" /\ partition_outcome = "ok"
ReturnedByPrimary == pc = "returned" /\ analyze_outcome = "ok"

RECURSIVE ConcatData(_)
ConcatData(pages) ==
    IF pages = <<>> THEN <<>>
    ELSE ConcatData(SubSeq(pages, 1, Len(pages) - 1)) \o pages[Len(pages)].data

TextsOf(items) == [k \in 1..Len(items) |-> items[k].text]

PageNumbersOf(pages) == [k \in 1..Len(pages) |-> pages[k].page_number]

NoDuplicates(seq) ==
    \A i, j \in 1..Len(seq) : i # j => seq[i] # seq[j]

\* The emission indices of the elements of page p, ascending.
RECURSIVE TextsOnPage(_, _)
TextsOnPage(els, p) ==
    IF els = <<>> THEN <<>>
    ELSE LET front == TextsOnPage(SubSeq(els, 1, Len(els) - 1), p)
             last == els[Len(els)]
         IN  IF last.page_number = p THEN Append(front, last.text) ELSE front

AllPagesPresent(els) == \A k \in 1..Len(els) : els[k].page_number # None

NonDecreasing(els) ==
    \A k \in 1..Len(els) - 1 : els[k].page_number <= els[k + 1].page_number

\* ---------------------------------------------------------------------- C1
\* C1: a call on a path that does not exist ends in FileNotFoundError with
\* neither engine invoked, _format_output not run and nothing returned.
C1_NotFoundBeforeAnyEngine ==
    (file_path \notin ExistingFiles /\ pc \notin {"idle", "exists_check"}) =>
        /\ pc = "raised"
        /\ error = "FileNotFoundError"
        /\ analyze_calls = 0
        /\ partition_calls = 0
        /\ format_calls = 0
        /\ result = <<>>

C1_Witness ==
    /\ pc = "raised"
    /\ file_path = "missing.pdf"
    /\ error = "FileNotFoundError"

\* ---------------------------------------------------------------------- C2
\* C2: once the primary engine has raised, _format_output never runs, the
\* fallback engine is invoked exactly once, on the call's own path, and what
\* the call returns is what the fallback extraction produces from that path
\* and the engine's element list.
C2_FallbackAloneDecides ==
    analyze_outcome = "raised" =>
        /\ format_calls = 0
        /\ pc = "partition" => partition_calls = 0
        /\ pc # "partition" => partition_calls = 1 /\ partition_arg = file_path
        /\ pc = "returned" =>
             result = <<fallback_unstructured_extraction(file_path, elements)>>

C2_Witness ==
    /\ pc = "returned"
    /\ analyze_outcome = "raised"
    /\ Len(elements) >= 2
    /\ Len(Out) >= 2

\* ---------------------------------------------------------------------- C3
\* C3: when the fallback engine fails after the primary engine failed, the call
\* ends raised with nothing returned, and a call never invokes either engine
\* more than once.
C3_FallbackFailureIsFatal ==
    /\ analyze_calls <= 1
    /\ partition_calls <= 1
    /\ partition_outcome = "raised" =>
         /\ pc = "raised"
         /\ error = "PartitionError"
         /\ result = <<>>
         /\ analyze_outcome = "raised"
         /\ analyze_calls = 1
         /\ partition_calls = 1

C3_Witness ==
    /\ pc = "raised"
    /\ analyze_outcome = "raised"
    /\ partition_outcome = "raised"

\* ---------------------------------------------------------------------- C4
\* C4: when every page number is present and they never decrease, the fallback
\* returns one page entry per distinct page number, each holding exactly that
\* page's elements in emission order, none empty, and the last element sits at
\* the end of the last entry.
C4_MonotonePagesGrouped ==
    (ReturnedByFallback /\ AllPagesPresent(elements) /\ NonDecreasing(elements)) =>
        LET nums == {elements[k].page_number : k \in 1..Len(elements)}
        IN  /\ Len(Out) = Cardinality(nums)
            /\ {Out[j].page_number : j \in 1..Len(Out)} = nums
            /\ \A j \in 1..Len(Out) :
                 /\ Out[j].data # <<>>
                 /\ TextsOf(Out[j].data) = TextsOnPage(elements, Out[j].page_number)
            /\ elements # <<>> =>
                 /\ Out # <<>>
                 /\ Out[Len(Out)].page_number = elements[Len(elements)].page_number
                 /\ Out[Len(Out)].data[Len(Out[Len(Out)].data)].text = Len(elements)

C4_Witness ==
    /\ ReturnedByFallback
    /\ AllPagesPresent(elements)
    /\ NonDecreasing(elements)
    /\ Len(elements) = 3
    /\ PageNumbersOf(Out) = <<1, 2>>
    /\ Len(Out[2].data) = 2

\* ---------------------------------------------------------------------- C5
\* Where a maximal run of equal page numbers starts.
RunStarts(els) ==
    {k \in 1..Len(els) : k = 1 \/ els[k].page_number # els[k - 1].page_number}

\* The run the k-th element lies in.
RunIndex(els, k) == Cardinality({j \in RunStarts(els) : j <= k})

\* C5: the fallback coalesces contiguous runs only.  Two adjacent page entries
\* never carry the same number, and when every page number is present there is
\* one entry per maximal run of equal page numbers, numbered as the run and
\* holding the run's elements, so that a number which comes back after another
\* one gets a second entry.
C5_ContiguousRunsOnly ==
    ReturnedByFallback =>
        /\ \A j \in 1..Len(Out) - 1 : Out[j].page_number # Out[j + 1].page_number
        /\ AllPagesPresent(elements) =>
             /\ Len(Out) = Cardinality(RunStarts(elements))
             /\ \A k \in 1..Len(elements) :
                  LET entry == Out[RunIndex(elements, k)]
                  IN  /\ entry.page_number = elements[k].page_number
                      /\ \E m \in 1..Len(entry.data) : entry.data[m].text = k

C5_Witness ==
    /\ ReturnedByFallback
    /\ AllPagesPresent(elements)
    /\ PageNumbersOf(Out) = <<1, 2, 1>>

ContiguousPages(els) ==
    \A i, k \in 1..Len(els) :
        (i < k /\ els[i].page_number # None
               /\ els[i].page_number = els[k].page_number) =>
            \A j \in i..k : els[j].page_number \in {None, els[i].page_number}

ClaimedKind(cls) ==
    CASE cls = "Title"         -> "title"
      [] cls = "Table"         -> "table"
      [] cls = "NarrativeText" -> "text"
      [] cls = "ListItem"      -> "list_item"
      [] cls = "Header"        -> "header"
      [] cls = "Footer"        -> "footer"
      [] OTHER                 -> "unknown"

ClosedKinds ==
    {"title", "table", "text", "list_item", "header", "footer", "unknown"}

\* C7: every item the fallback returns has the kind the mapping gives its
\* element's category (a table's text being the table's text), and no kind
\* lies outside the closed set.
C7_KindFollowsMapping ==
    ReturnedByFallback =>
        LET items == ConcatData(Out)
        IN  \A k \in 1..Len(elements) :
              /\ items[k].type = ClaimedKind(elements[k].cls)
              /\ items[k].type \in ClosedKinds
              /\ items[k].text = elements[k].text

\* ---------------------------------------------------------------------- C8
\* C8: on both paths every returned page entry has an integer page_number and
\* every item of its list has the keys type and text.
C8_EveryItemHasTypeAndText ==
    pc = "returned" =>
        \A j \in 1..Len(Out) :
            /\ Out[j].page_number \in Int
            /\ \A m \in 1..Len(Out[j].data) :
                 {"type", "text"} \subseteq DOMAIN Out[j].data[m]

\* ---------------------------------------------------------------------- C9
\* C9: whatever the page numbers, the items of the page entries, taken in
\* output order, are the elements in emission order, each exactly once; during
\* the loop the same holds of the elements consumed so far, with the open page
\* last.
C9_EveryElementExactlyOnce ==
    /\ pc = "loop" =>
         ConcatData(fallback_data.elements) \o page_data
             = [k \in 1..(idx - 1) |-> ElementDict(elements[k])]
    /\ ReturnedByFallback =>
         /\ ConcatData(Out) = [k \in 1..Len(elements) |-> ElementDict(elements[k])]
         /\ TextsOf(ConcatData(Out)) = [k \in 1..Len(elements) |-> k]

C9_Witness ==
    /\ ReturnedByFallback
    /\ Len(elements) = 3
    /\ elements[1].page_number = 2
    /\ elements[2].page_number = None
    /\ elements[3].page_number = 1
    /\ PageNumbersOf(Out) = <<2, 1>>

\* --------------------------------------------------------------------- C10
\* The elements before the first page-numbered one.
LeadingAbsent(els) ==
    {k \in 1..Len(els) : \A j \in 1..k : els[j].page_number = None}

\* C10: an iteration on an element without a page number appends it to the
\* open page and leaves the cursor and the closed pages alone; while no
\* page-numbered element has been seen the cursor is -1 and no page is closed;
\* and a list that starts with such elements comes back with a first page
\* entry numbered -1 that holds exactly them.
C10_AbsentPageNumberJoinsOpenPage ==
    [][/\ (/\ pc = "loop"
           /\ idx <= Len(elements)
           /\ elements[idx].page_number = None
           /\ idx' = idx + 1) =>
              /\ current_page_number' = current_page_number
              /\ fallback_data' = fallback_data
              /\ page_data' = Append(page_data, ElementDict(elements[idx]))
       /\ (pc' = "loop" /\ (idx' - 1) \in LeadingAbsent(elements')) =>
              /\ current_page_number' = Sentinel
              /\ fallback_data'.elements = <<>>
              /\ Len(page_data') = idx' - 1
       /\ (ReturnedByFallback' /\ 1 \in LeadingAbsent(elements')) =>
              /\ Out'[1].page_number = Sentinel
              /\ TextsOf(Out'[1].data)
                   = [k \in 1..Cardinality(LeadingAbsent(elements')) |-> k]
      ]_vars

C10_Witness ==
    /\ ReturnedByFallback
    /\ Len(elements) = 3
    /\ elements[1].page_number = None
    /\ elements[2].page_number = None
    /\ elements[3].page_number = 1
    /\ PageNumbersOf(Out) = <<Sentinel, 1>>
    /\ Len(Out[1].data) = 2

====
